---- MODULE Spec2Model ----
(***************************************************************************)
(* Model of src/main.py: a two-layer spiking neural network (snntorch       *)
(* Leaky neurons behind two nn.Linear layers), its training loop with the   *)
(* per-iteration held-out evaluation and monitoring snapshot, and the       *)
(* final full-dataset evaluation.                                           *)
(*                                                                          *)
(* Numbers.  Potentials are kept as integers in units of 1/Scale, where     *)
(* Scale = BetaDen^num_steps: weights, biases and inputs are integers, so   *)
(* after t steps every potential is a multiple of BetaDen^(num_steps-t+1)   *)
(* and the multiplication by beta = BetaNum/BetaDen is exact.  Spikes,      *)
(* currents, labels and counts are plain integers.  Classes and all         *)
(* indices are 1-based (class c of the source is class c+1 here); the       *)
(* counters epoch, iter_counter, counter, step keep the source's 0-base.    *)
(***************************************************************************)
EXTENDS Integers, Sequences, FiniteSets, TLC

\* ---- architecture and temporal dynamics (src/main.py:31-38), at small sizes
num_inputs == 2
num_hidden == 2
num_outputs == 2
num_steps == 3
\* beta = 0.95 = BetaNum / BetaDen
BetaNum == 19
BetaDen == 20
\* snn.Leaky's default firing threshold, 1.0
Threshold == 1
Scale == BetaDen ^ num_steps

\* ---- data and training-loop configuration, at small sizes
batch_size == 2
NTrain == 3
NTest == 3
num_epochs == 2
print_freq == 2

VARIABLES
    pc,              \* position of the script
    ret,             \* call site the running Net.forward returns to
    net,             \* the parameters of linear1 and linear2
    x,               \* argument of the running Net.forward
    mem1, mem2,      \* membrane potentials inside Net.forward
    spk1, spk2,      \* spikes of the last loop step inside Net.forward
    spk2_rec, mem2_rec, step,
    epoch, iter_counter, train_batch,
    data, targets, mem_rec, loss_val, loss_step,
    train_loss_hist, test_loss_hist, counter,
    test_data, test_targets, test_spk, test_mem, test_loss,
    output, acc,     \* print_batch_accuracy: the spikes it got, the hits it found
    total, corrects, loader,
    updates,         \* history: the weights each optimizer.step() produced
    fwd_updates,     \* history: optimizer steps done when the running forward began
    monitored,       \* history: values of counter at which the monitor ran
    batch_idx,       \* history: dataset indices of the batch held in data
    counted,         \* history: dataset indices tallied by the final evaluation
    calls            \* history: (weights, input, trajectory) of each finished forward

vars == <<pc, ret, net, x, mem1, mem2, spk1, spk2, spk2_rec, mem2_rec, step,
          epoch, iter_counter, train_batch, data, targets, mem_rec, loss_val,
          loss_step, train_loss_hist, test_loss_hist, counter, test_data,
          test_targets, test_spk, test_mem, test_loss, output, acc, total,
          corrects, loader, updates, fwd_updates, monitored, batch_idx,
          counted, calls>>

\* ---- small helpers -------------------------------------------------------
RECURSIVE SumSeq(_)
SumSeq(s) == IF s = <<>> THEN 0 ELSE Head(s) + SumSeq(Tail(s))

Max(a, b) == IF a >= b THEN a ELSE b

RECURSIVE MaxSeq(_)
MaxSeq(s) == IF Len(s) = 1 THEN s[1] ELSE Max(Head(s), MaxSeq(Tail(s)))

Zeros(rows, cols) == [b \in 1..rows |-> [j \in 1..cols |-> 0]]

\* a (batch, width) tensor written out as a tuple of tuples
AsTensor(m) == [b \in 1..Len(m) |-> m[b] \o <<>>] \o <<>>

\* ---- the data sets: MNIST replaced by small fixed sample lists -----------
\* sample i: a one-hot "image", or the all-zero image for every third sample
SampleX(i) ==
    [j \in 1..num_inputs |->
        IF i % 3 # 0 /\ j = (i % num_inputs) + 1 THEN 1 ELSE 0]
TrainLabel(i) == (i % num_outputs) + 1
TestLabel(i) == ((i + 1) % num_outputs) + 1

\* shuffle=True: the order a loader's iterator yields the indices in
Shuffles(n) == { [i \in 1..n |-> i], [i \in 1..n |-> n + 1 - i] }

\* DataLoader batching of an index order
RECURSIVE Batches(_, _)
Batches(order, drop_last) ==
    IF Len(order) = 0 THEN <<>>
    ELSE IF Len(order) < batch_size
         THEN (IF drop_last THEN <<>> ELSE <<order>>)
         ELSE <<SubSeq(order, 1, batch_size)>>
              \o Batches(SubSeq(order, batch_size + 1, Len(order)), drop_last)

\* drop_last of train_loader, of test_loader and of the final loader
\* (variant of TrainDropLast: the training loader keeps its partial batch)
TrainDropLastFalse == FALSE
TrainDropLast == TRUE
TestDropLast == TRUE
\* (variant of EvalDropLast: the final loader drops its partial batch too)
EvalDropLastTrue == TRUE
EvalDropLast == FALSE

\* ---- the layers ------------------------------------------------------------
Dot(w, v) == SumSeq([i \in 1..Len(w) |-> w[i] * v[i]])

\* nn.Linear: W v + b
Linear(layer, v) == [o \in 1..Len(layer.W) |-> Dot(layer.W[o], v) + layer.b[o]]

\* the spike nonlinearity of snntorch (forward pass): 1 when its argument is > 0
\* (variant: 1 when its argument is >= 0)
HeavisideGe(z) == IF z >= 0 THEN 1 ELSE 0
Heaviside(z) == IF z > 0 THEN 1 ELSE 0

\* snn.Leaky, reset_mechanism "subtract": the new potential of one neuron
\* from its input current (unscaled) and its previous potential (scaled)
\* (variant: a neuron that fired restarts from zero)
LeakyMemZeroReset(input, mem) ==
    IF Heaviside(mem - Threshold * Scale) = 1 THEN 0
    ELSE (BetaNum * mem) \div BetaDen + input * Scale
\* (variant: the leak takes a fixed amount off the potential at every step)
LeakyMemFixedLeak(input, mem) ==
    mem - Scale \div BetaDen + input * Scale
        - Heaviside(mem - Threshold * Scale) * Threshold * Scale
LeakyMem(input, mem) ==
    (BetaNum * mem) \div BetaDen + input * Scale
        - Heaviside(mem - Threshold * Scale) * Threshold * Scale

\* snn.Leaky applied to a (batch, width) current: new potentials and spikes
LeakyLayerMem(cur, mem) ==
    AsTensor([b \in 1..Len(cur) |->
                [j \in 1..Len(cur[b]) |-> LeakyMem(cur[b][j], mem[b][j])]])
LeakyLayerSpk(newmem) ==
    AsTensor([b \in 1..Len(newmem) |->
                [j \in 1..Len(newmem[b]) |->
                    Heaviside(newmem[b][j] - Threshold * Scale)]])

\* a linear layer applied to every sample of a batch
LinearLayer(layer, xx) == AsTensor([b \in 1..Len(xx) |-> Linear(layer, xx[b])])

\* ---- weight sets the initialisation and the optimizer draw from --------------
NetDiag ==
    [linear1 |-> [W |-> [h \in 1..num_hidden |->
                            [i \in 1..num_inputs |-> IF h = i THEN 1 ELSE 0]],
                  b |-> [h \in 1..num_hidden |-> 0]],
     linear2 |-> [W |-> [o \in 1..num_outputs |->
                            [h \in 1..num_hidden |-> IF o = h THEN 1 ELSE -1]],
                  b |-> [o \in 1..num_outputs |-> 0]]]
NetLast ==
    [linear1 |-> [W |-> [h \in 1..num_hidden |-> [i \in 1..num_inputs |-> 0]],
                  b |-> [h \in 1..num_hidden |-> 2]],
     linear2 |-> [W |-> [o \in 1..num_outputs |->
                            [h \in 1..num_hidden |->
                                IF o = num_outputs THEN 2 ELSE -1]],
                  b |-> [o \in 1..num_outputs |-> 0]]]
NetBias ==
    [linear1 |-> [W |-> [h \in 1..num_hidden |->
                            [i \in 1..num_inputs |-> IF h = i THEN 2 ELSE 1]],
                  b |-> [h \in 1..num_hidden |-> IF h = 1 THEN 1 ELSE -1]],
     linear2 |-> [W |-> [o \in 1..num_outputs |->
                            [h \in 1..num_hidden |-> IF o = 1 THEN 1 ELSE 2]],
                  b |-> [o \in 1..num_outputs |-> IF o = 1 THEN 1 ELSE 0]]]
WeightSets == {NetDiag, NetLast, NetBias}

\* ---- Loss Aggregator and Evaluator --------------------------------------------
\* nn.CrossEntropyLoss of one (batch, num_outputs) potential tensor against the
\* labels, in units of 1/(Scale * batch): log-sum-exp is taken as the maximum
\* (its piecewise-linear envelope), so the value is an integer and >= 0
CrossEntropy(mem, tg) ==
    SumSeq([b \in 1..Len(mem) |-> MaxSeq(mem[b]) - mem[b][tg[b]]])

\* tensor.sum(dim=0) of a trajectory: per sample and class, the sum over steps
SumOverTime(spikes) ==
    [b \in 1..Len(spikes[1]) |->
        [o \in 1..Len(spikes[1][b]) |->
            SumSeq([t \in 1..Len(spikes) |-> spikes[t][b][o]])]]

\* tensor.max(1): the index of the (first) largest entry of a row
\* (variant: the index of the first smallest entry)
ArgMinFirst(row) ==
    CHOOSE k \in 1..Len(row) :
        /\ \A j \in 1..Len(row) : row[j] >= row[k]
        /\ \A j \in 1..(k - 1) : row[j] > row[k]
ArgMax(row) ==
    CHOOSE k \in 1..Len(row) :
        /\ row[k] = MaxSeq(row)
        /\ \A j \in 1..Len(row) : row[j] = MaxSeq(row) => k <= j

Predicted(spikes) ==
    LET s1 == SumOverTime(spikes) IN [b \in 1..Len(s1) |-> ArgMax(s1[b])]

\* (targets == idx).sum(): the number of samples predicted right
Correct(pred, tg) == Cardinality({b \in 1..Len(tg) : pred[b] = tg[b]})

\* ---- Net.forward ---------------------------------------------------------------
localsF == <<mem1, mem2, spk1, spk2, spk2_rec, mem2_rec, step>>
callF == <<x, ret, fwd_updates>>
trainV == <<epoch, iter_counter, train_batch>>
batchV == <<data, targets, batch_idx>>
lossV == <<loss_val, loss_step>>
histV == <<train_loss_hist, test_loss_hist, counter>>
testV == <<test_data, test_targets>>
resV == <<mem_rec, test_spk, test_mem, output>>
evalV == <<total, corrects, loader, counted>>
ghostV == <<updates, monitored, calls>>

\* net(arg) called from call site `site`
Call(site, arg) ==
    /\ pc' = "forward"
    /\ ret' = site
    /\ x' = arg
    /\ fwd_updates' = Len(updates)
    /\ UNCHANGED localsF

\* lifN.init_leaky(): the potential a forward call starts from; `old` is what
\* the previous call left behind
\* (variant: potentials of matching shape are carried over)
InitLeakyKeep(rows, width, old) ==
    IF Len(old) = rows /\ rows > 0 /\ Len(old[1]) = width
    THEN old ELSE Zeros(rows, width)
InitLeaky(rows, width, old) == Zeros(rows, width)

\* while step < num_steps
\* (variant: one step more)
ForwardLoopCondLe == step <= num_steps
ForwardLoopCond == step < num_steps

ForwardInit ==
    /\ pc = "forward"
    /\ mem1' = InitLeaky(Len(x), num_hidden, mem1)
    /\ mem2' = InitLeaky(Len(x), num_outputs, mem2)
    /\ spk1' = <<>>
    /\ spk2' = <<>>
    /\ spk2_rec' = <<>>
    /\ mem2_rec' = <<>>
    /\ step' = 0
    /\ pc' = "forward_loop"
    /\ UNCHANGED <<net, callF, trainV, batchV, lossV, histV, testV, resV,
                   evalV, ghostV, test_loss, acc>>

ForwardStep ==
    /\ pc = "forward_loop"
    /\ ForwardLoopCond
    /\ \E cur1 \in {LinearLayer(net.linear1, x)} :
       \E m1 \in {LeakyLayerMem(cur1, mem1)} :
       \E s1 \in {LeakyLayerSpk(m1)} :
       \E cur2 \in {LinearLayer(net.linear2, s1)} :
       \E m2 \in {LeakyLayerMem(cur2, mem2)} :
       \E s2 \in {LeakyLayerSpk(m2)} :
          /\ mem1' = m1
          /\ spk1' = s1
          /\ mem2' = m2
          /\ spk2' = s2
          /\ spk2_rec' = Append(spk2_rec, s2)
          /\ mem2_rec' = Append(mem2_rec, m2)
    /\ step' = step + 1
    /\ UNCHANGED <<pc, net, callF, trainV, batchV, lossV, histV, testV, resV,
                   evalV, ghostV, test_loss, acc>>

ReturnPc(site) ==
    CASE site = "train" -> "train_loss_init"
      [] site = "test" -> "test_loss_init"
      [] site = "mon_train" -> "acc_train"
      [] site = "mon_test" -> "acc_test"
      [] site = "eval" -> "eval_tally"

ForwardReturn ==
    /\ pc = "forward_loop"
    /\ ~ForwardLoopCond
    /\ pc' = ReturnPc(ret)
    /\ mem_rec' = IF ret = "train" THEN mem2_rec ELSE mem_rec
    /\ test_spk' = IF ret \in {"test", "eval"} THEN spk2_rec ELSE test_spk
    /\ test_mem' = IF ret = "test" THEN mem2_rec ELSE test_mem
    /\ output' = IF ret \in {"mon_train", "mon_test"} THEN spk2_rec ELSE output
    /\ calls' = Append(calls, [w |-> net, x |-> x, spikes |-> spk2_rec,
                                mem |-> mem2_rec])
    /\ UNCHANGED <<net, callF, localsF, trainV, batchV, lossV, histV, testV,
                   evalV, updates, monitored, test_loss, acc>>

\* ---- the training loop ------------------------------------------------------------
BatchX(idx) == [b \in 1..Len(idx) |-> SampleX(idx[b])]
TrainTargets(idx) == [b \in 1..Len(idx) |-> TrainLabel(idx[b])]
TestTargets(idx) == [b \in 1..Len(idx) |-> TestLabel(idx[b])]

\* for epoch in range(num_epochs): iter_counter = 0; train_batch = iter(train_loader)
\* (epoch is the index of the epoch being run, num_epochs once the loop is over)
EpochStart ==
    /\ pc = "epoch"
    /\ epoch < num_epochs
    /\ iter_counter' = 0
    /\ \E order \in Shuffles(NTrain) : train_batch' = Batches(order, TrainDropLast)
    /\ pc' = "train_iter"
    /\ UNCHANGED <<net, callF, localsF, epoch, batchV, lossV, histV, testV,
                   resV, evalV, ghostV, test_loss, acc>>

\* for data, targets in train_batch: ...; net.train(); net(data.view(batch_size, -1))
TrainFetch ==
    /\ pc = "train_iter"
    /\ train_batch # <<>>
    /\ batch_idx' = Head(train_batch)
    /\ data' = BatchX(Head(train_batch))
    /\ targets' = TrainTargets(Head(train_batch))
    /\ train_batch' = Tail(train_batch)
    /\ Call("train", data')
    /\ UNCHANGED <<net, epoch, iter_counter, lossV, histV, testV, resV, evalV,
                   ghostV, test_loss, acc>>

\* train_batch is exhausted: the next epoch
EpochEnd ==
    /\ pc = "train_iter"
    /\ train_batch = <<>>
    /\ epoch' = epoch + 1
    /\ pc' = "epoch"
    /\ UNCHANGED <<net, callF, localsF, iter_counter, train_batch, batchV,
                   lossV, histV, testV, resV, evalV, ghostV, test_loss, acc>>

\* the order of the statements of the loop body: the statement that follows p
\* (variant: the held-out evaluation placed before the optimizer step)
PcAfterEvalFirst(p) ==
    CASE p = "train_loss" -> "append_train"
      [] p = "append_train" -> "test_fetch"
      [] p = "test_loss" -> "append_test"
      [] p = "append_test" -> "optimizer"
      [] p = "optimizer" -> "monitor_check"
PcAfter(p) ==
    CASE p = "train_loss" -> "optimizer"
      [] p = "optimizer" -> "append_train"
      [] p = "append_train" -> "test_fetch"
      [] p = "test_loss" -> "append_test"
      [] p = "append_test" -> "monitor_check"

\* for step in range(num_steps), of both loss loops
\* (variant: the last step left out)
LossLoopCondShort == loss_step < num_steps - 1
LossLoopCond == loss_step < num_steps

\* loss_val = torch.zeros((1), ...)
TrainLossInit ==
    /\ pc = "train_loss_init"
    /\ loss_val' = 0
    /\ loss_step' = 0
    /\ pc' = "train_loss"
    /\ UNCHANGED <<net, callF, localsF, trainV, batchV, histV, testV, resV,
                   evalV, ghostV, test_loss, acc>>

\* loss_val += loss(mem_rec[step], targets)
TrainLossStep ==
    /\ pc = "train_loss"
    /\ LossLoopCond
    /\ loss_val' = loss_val + CrossEntropy(mem_rec[loss_step + 1], targets)
    /\ loss_step' = loss_step + 1
    /\ UNCHANGED <<pc, net, callF, localsF, trainV, batchV, histV, testV, resV,
                   evalV, ghostV, test_loss, acc>>

\* range(num_steps) is exhausted
TrainLossDone ==
    /\ pc = "train_loss"
    /\ ~LossLoopCond
    /\ pc' = PcAfter("train_loss")
    /\ UNCHANGED <<net, callF, localsF, trainV, batchV, lossV, histV, testV,
                   resV, evalV, ghostV, test_loss, acc>>

\* optimizer.zero_grad(); loss_val.backward(); optimizer.step(): the update rule
\* is the optimizer's, any weight set may come out of it
OptimizerStep ==
    /\ pc = "optimizer"
    /\ net' \in WeightSets
    /\ updates' = Append(updates, net')
    /\ pc' = PcAfter("optimizer")
    /\ UNCHANGED <<callF, localsF, trainV, batchV, lossV, histV, testV, resV,
                   evalV, monitored, calls, test_loss, acc>>

\* (variant: the newest entry of the training history is overwritten)
AppendTrainLossOverwriting ==
    /\ pc = "append_train"
    /\ train_loss_hist' = IF train_loss_hist = <<>> THEN <<loss_val>>
                          ELSE [train_loss_hist EXCEPT ![Len(train_loss_hist)] = loss_val]
    /\ pc' = PcAfter("append_train")
    /\ UNCHANGED <<net, callF, localsF, trainV, batchV, lossV, test_loss_hist,
                   counter, testV, resV, evalV, ghostV, test_loss, acc>>

\* train_loss_hist.append(loss_val.item())
AppendTrainLoss ==
    /\ pc = "append_train"
    /\ train_loss_hist' = Append(train_loss_hist, loss_val)
    /\ pc' = PcAfter("append_train")
    /\ UNCHANGED <<net, callF, localsF, trainV, batchV, lossV, test_loss_hist,
                   counter, testV, resV, evalV, ghostV, test_loss, acc>>

\* (variant: the held-out evaluation also moves the weights)
TestFetchUpdating ==
    /\ pc = "test_fetch"
    /\ \E order \in Shuffles(NTest) :
          /\ Batches(order, TestDropLast) # <<>>
          /\ test_data' = BatchX(Head(Batches(order, TestDropLast)))
          /\ test_targets' = TestTargets(Head(Batches(order, TestDropLast)))
    /\ Call("test", test_data')
    /\ net' \in WeightSets
    /\ UNCHANGED <<trainV, batchV, lossV, histV, resV, evalV, ghostV,
                   test_loss, acc>>

\* (variant: one iterator over test_loader is shared by all iterations)
TestFetchSharedIterator ==
    /\ pc = "test_fetch"
    /\ \E order \in Shuffles(NTest) :
          /\ counter + 1 \in DOMAIN Batches(order, TestDropLast)
          /\ test_data' = BatchX(Batches(order, TestDropLast)[counter + 1])
          /\ test_targets' = TestTargets(Batches(order, TestDropLast)[counter + 1])
    /\ Call("test", test_data')
    /\ UNCHANGED <<net, trainV, batchV, lossV, histV, resV, evalV, ghostV,
                   test_loss, acc>>

\* net.eval(); test_data, test_targets = next(iter(test_loader));
\* net(test_data.view(batch_size, -1))
TestFetch ==
    /\ pc = "test_fetch"
    /\ \E order \in Shuffles(NTest) :
          /\ Batches(order, TestDropLast) # <<>>
          /\ test_data' = BatchX(Head(Batches(order, TestDropLast)))
          /\ test_targets' = TestTargets(Head(Batches(order, TestDropLast)))
    /\ Call("test", test_data')
    /\ UNCHANGED <<net, trainV, batchV, lossV, histV, resV, evalV, ghostV,
                   test_loss, acc>>

\* test_loss = torch.zeros((1), ...)
TestLossInit ==
    /\ pc = "test_loss_init"
    /\ test_loss' = 0
    /\ loss_step' = 0
    /\ pc' = "test_loss"
    /\ UNCHANGED <<net, callF, localsF, trainV, batchV, loss_val, histV, testV,
                   resV, evalV, ghostV, acc>>

\* test_loss += loss(test_mem[step], test_targets)
TestLossStep ==
    /\ pc = "test_loss"
    /\ LossLoopCond
    /\ test_loss' = test_loss + CrossEntropy(test_mem[loss_step + 1], test_targets)
    /\ loss_step' = loss_step + 1
    /\ UNCHANGED <<pc, net, callF, localsF, trainV, batchV, loss_val, histV,
                   testV, resV, evalV, ghostV, acc>>

TestLossDone ==
    /\ pc = "test_loss"
    /\ ~LossLoopCond
    /\ pc' = PcAfter("test_loss")
    /\ UNCHANGED <<net, callF, localsF, trainV, batchV, lossV, histV, testV,
                   resV, evalV, ghostV, test_loss, acc>>

\* (variant: the counter is advanced with the append, before the monitor)
AppendTestLossCounting ==
    /\ pc = "append_test"
    /\ test_loss_hist' = Append(test_loss_hist, test_loss)
    /\ counter' = counter + 1
    /\ pc' = PcAfter("append_test")
    /\ UNCHANGED <<net, callF, localsF, trainV, batchV, lossV, train_loss_hist,
                   testV, resV, evalV, ghostV, test_loss, acc>>

\* test_loss_hist.append(test_loss.item())
AppendTestLoss ==
    /\ pc = "append_test"
    /\ test_loss_hist' = Append(test_loss_hist, test_loss)
    /\ pc' = PcAfter("append_test")
    /\ UNCHANGED <<net, callF, localsF, trainV, batchV, lossV, train_loss_hist,
                   counter, testV, resV, evalV, ghostV, test_loss, acc>>

\* (variant: the test is made on the per-epoch counter)
MonitorDuePerEpoch == iter_counter % print_freq = 0

\* if counter % print_freq == 0
MonitorDue == counter % print_freq = 0

\* accuracy_loss_monitor(): reads train_loss_hist[counter], test_loss_hist[counter],
\* then print_batch_accuracy(data, targets, train=True) calls the network
MonitorStart ==
    /\ pc = "monitor_check"
    /\ MonitorDue
    /\ counter + 1 \in DOMAIN train_loss_hist
    /\ counter + 1 \in DOMAIN test_loss_hist
    /\ monitored' = Append(monitored, counter)
    /\ Call("mon_train", data)
    /\ UNCHANGED <<net, trainV, batchV, lossV, histV, testV, resV, evalV,
                   updates, calls, test_loss, acc>>

MonitorSkip ==
    /\ pc = "monitor_check"
    /\ ~MonitorDue
    /\ pc' = "increment"
    /\ UNCHANGED <<net, callF, localsF, trainV, batchV, lossV, histV, testV,
                   resV, evalV, ghostV, test_loss, acc>>

\* print_batch_accuracy(data, targets, train=True) after its forward pass, then
\* print_batch_accuracy(test_data, test_targets, train=False) calls the network
BatchAccuracyTrain ==
    /\ pc = "acc_train"
    /\ acc' = Correct(Predicted(output), targets)
    /\ Call("mon_test", test_data)
    /\ UNCHANGED <<net, trainV, batchV, lossV, histV, testV, resV, evalV,
                   ghostV, test_loss>>

BatchAccuracyTest ==
    /\ pc = "acc_test"
    /\ acc' = Correct(Predicted(output), test_targets)
    /\ pc' = "increment"
    /\ UNCHANGED <<net, callF, localsF, trainV, batchV, lossV, histV, testV,
                   resV, evalV, ghostV, test_loss>>

\* counter += 1; iter_counter += 1
Increment ==
    /\ pc = "increment"
    /\ counter' = counter + 1
    /\ iter_counter' = iter_counter + 1
    /\ pc' = "train_iter"
    /\ UNCHANGED <<net, callF, localsF, epoch, train_batch, batchV, lossV,
                   train_loss_hist, test_loss_hist, testV, resV, evalV, ghostV,
                   test_loss, acc>>

\* ---- the full-dataset evaluation ---------------------------------------------------
\* total = 0; corrects = 0; loader = DataLoader(mnist_test, ..., drop_last=False)
EvalInit ==
    /\ pc = "epoch"
    /\ epoch >= num_epochs
    /\ total' = 0
    /\ corrects' = 0
    /\ counted' = <<>>
    /\ \E order \in Shuffles(NTest) : loader' = Batches(order, EvalDropLast)
    /\ pc' = "eval_iter"
    /\ UNCHANGED <<net, callF, localsF, trainV, batchV, lossV, histV, testV,
                   resV, ghostV, test_loss, acc>>

\* for data, targets in loader: ...; net(data.view(data.size(0), -1))
EvalFetch ==
    /\ pc = "eval_iter"
    /\ loader # <<>>
    /\ batch_idx' = Head(loader)
    /\ data' = BatchX(Head(loader))
    /\ targets' = TestTargets(Head(loader))
    /\ loader' = Tail(loader)
    /\ Call("eval", data')
    /\ UNCHANGED <<net, trainV, lossV, histV, testV, resV, total, corrects,
                   counted, ghostV, test_loss, acc>>

\* spike_sum, predicted, correct; corrects += correct.item(); total += targets.size(0)
EvalTally ==
    /\ pc = "eval_tally"
    /\ corrects' = corrects + Correct(Predicted(test_spk), targets)
    /\ total' = total + Len(targets)
    /\ counted' = counted \o batch_idx
    /\ pc' = "eval_iter"
    /\ UNCHANGED <<net, callF, localsF, trainV, batchV, lossV, histV, testV,
                   resV, loader, ghostV, test_loss, acc>>

\* the loader is exhausted: the two closing prints
EvalDone ==
    /\ pc = "eval_iter"
    /\ loader = <<>>
    /\ pc' = "done"
    /\ UNCHANGED <<net, callF, localsF, trainV, batchV, lossV, histV, testV,
                   resV, evalV, ghostV, test_loss, acc>>

\* ---- the program -----------------------------------------------------------------
Init ==
    /\ pc = "epoch"
    /\ ret = "none"
    /\ net \in WeightSets
    /\ x = <<>>
    /\ mem1 = <<>> /\ mem2 = <<>> /\ spk1 = <<>> /\ spk2 = <<>>
    /\ spk2_rec = <<>> /\ mem2_rec = <<>> /\ step = 0
    /\ epoch = 0 /\ iter_counter = 0 /\ train_batch = <<>>
    /\ data = <<>> /\ targets = <<>> /\ mem_rec = <<>>
    /\ loss_val = 0 /\ loss_step = 0
    /\ train_loss_hist = <<>> /\ test_loss_hist = <<>> /\ counter = 0
    /\ test_data = <<>> /\ test_targets = <<>>
    /\ test_spk = <<>> /\ test_mem = <<>> /\ test_loss = 0
    /\ output = <<>> /\ acc = 0
    /\ total = 0 /\ corrects = 0 /\ loader = <<>>
    /\ updates = <<>> /\ fwd_updates = 0 /\ monitored = <<>>
    /\ batch_idx = <<>> /\ counted = <<>> /\ calls = <<>>

Next ==
    \/ ForwardInit \/ ForwardStep \/ ForwardReturn
    \/ EpochStart \/ TrainFetch \/ EpochEnd
    \/ TrainLossInit \/ TrainLossStep \/ TrainLossDone
    \/ OptimizerStep \/ AppendTrainLoss
    \/ TestFetch \/ TestLossInit \/ TestLossStep \/ TestLossDone
    \/ AppendTestLoss
    \/ MonitorStart \/ MonitorSkip \/ BatchAccuracyTrain \/ BatchAccuracyTest
    \/ Increment
    \/ EvalInit \/ EvalFetch \/ EvalTally \/ EvalDone

Spec == Init /\ [][Next]_vars

\* ---- properties of Net.forward ------------------------------------------------------
\* a forward call has just returned to its call site
Returned == pc \in {"train_loss_init", "test_loss_init", "acc_train",
                    "acc_test", "eval_tally"}

IsShape(m, rows, cols) ==
    /\ DOMAIN m = 1..rows
    /\ \A b \in 1..rows : DOMAIN m[b] = 1..cols

\* C1: one Net.forward call on a batch of B samples returns exactly num_steps
\* output spike tensors and num_steps output potential tensors, one appended
\* per loop step, each of shape (B, num_outputs), every spike entry 0 or 1.
C1_TrajectoryShape ==
    /\ pc = "forward_loop" => Len(spk2_rec) = step /\ Len(mem2_rec) = step
    /\ Returned =>
          /\ Len(spk2_rec) = num_steps
          /\ Len(mem2_rec) = num_steps
          /\ \A t \in 1..Len(spk2_rec) :
                /\ IsShape(spk2_rec[t], Len(x), num_outputs)
                /\ \A b \in 1..Len(x) : \A o \in 1..num_outputs :
                      spk2_rec[t][b][o] \in {0, 1}
          /\ \A t \in 1..Len(mem2_rec) : IsShape(mem2_rec[t], Len(x), num_outputs)

\* a call on the final partial batch has returned, and some output neuron fired
C1_Witness ==
    /\ pc = "eval_tally"
    /\ Len(x) = NTest % batch_size
    /\ Len(x) < batch_size
    /\ Len(spk2_rec) = num_steps
    /\ \E t \in 1..Len(spk2_rec) : \E o \in 1..num_outputs : spk2_rec[t][1][o] = 1

\* the trajectory of a forward unroll that starts from the baseline potentials,
\* as a function of the weights and the input alone
RECURSIVE UnrollFrom(_, _, _, _, _)
UnrollFrom(w, xx, m1, m2, n) ==
    IF n = 0 THEN [spikes |-> <<>>, mem |-> <<>>]
    ELSE LET cur1 == LinearLayer(w.linear1, xx)
             n1 == LeakyLayerMem(cur1, m1)
             s1 == LeakyLayerSpk(n1)
             cur2 == LinearLayer(w.linear2, s1)
             n2 == LeakyLayerMem(cur2, m2)
             s2 == LeakyLayerSpk(n2)
             rest == UnrollFrom(w, xx, n1, n2, n - 1)
         IN [spikes |-> <<s2>> \o rest.spikes, mem |-> <<n2>> \o rest.mem]
Unroll(w, xx) ==
    UnrollFrom(w, xx, Zeros(Len(xx), num_hidden), Zeros(Len(xx), num_outputs),
               num_steps)

\* C2: every Net.forward call starts from mem1 = mem2 = 0 and retains nothing of
\* earlier calls: what it returns is the unroll from the baseline of the current
\* weights on that call's input, whatever calls came before.
C2_FreshState ==
    /\ (pc = "forward_loop" /\ step = 0) =>
          /\ mem1 = Zeros(Len(x), num_hidden)
          /\ mem2 = Zeros(Len(x), num_outputs)
    /\ Returned => [spikes |-> spk2_rec, mem |-> mem2_rec] = Unroll(net, x)

\* a later call (not the first) has returned, and the call before it had left
\* non-baseline potentials of the same shape behind
C2_Witness ==
    /\ Returned
    /\ Len(calls) >= 2
    /\ Len(calls[Len(calls) - 1].x) = Len(x)
    /\ \E b \in 1..Len(x) : \E o \in 1..num_outputs :
          calls[Len(calls) - 1].mem[num_steps][b][o] # 0

\* C3: two Net.forward calls with identical weights and identical input return
\* identical spike and potential trajectories: the call that has just returned
\* agrees with every earlier call on the same weights and input.
C3_Deterministic ==
    Returned =>
        \A i \in 1..(Len(calls) - 1) :
            LET last == calls[Len(calls)] IN
            (calls[i].w = last.w /\ calls[i].x = last.x) =>
                (calls[i].spikes = last.spikes /\ calls[i].mem = last.mem)

\* two calls with the same weights and input, with a call on another input
\* between them, and a trajectory that has spikes
C3_Witness ==
    \E i \in 1..Len(calls) : \E j \in 1..Len(calls) :
        /\ i + 1 < j
        /\ calls[i].w = calls[j].w /\ calls[i].x = calls[j].x
        /\ calls[i + 1].x # calls[i].x
        /\ \E b \in 1..Len(calls[i].x) : \E o \in 1..num_outputs :
              calls[i].spikes[num_steps][b][o] = 1

\* the reset term of a neuron at the loop step about to run: its spike of the
\* previous step, 0 at the first step
ResetTerm(spk, b, j) == IF step = 0 THEN 0 ELSE spk[b][j]

\* C4: at every loop step, for every neuron of both layers,
\* V_t = beta * V_(t-1) + I_t - R_t * V_threshold with R_t the neuron's spike of
\* step t-1 (0 at the first step); in units of 1/Scale and multiplied by BetaDen.
C4_StateUpdate ==
    [][(pc = "forward_loop" /\ step' = step + 1) =>
        /\ \A b \in 1..Len(x) : \A h \in 1..num_hidden :
              BetaDen * mem1'[b][h] =
                  BetaNum * mem1[b][h]
                  + BetaDen * Scale * (Linear(net.linear1, x[b])[h]
                                       - ResetTerm(spk1, b, h) * Threshold)
        /\ \A b \in 1..Len(x) : \A o \in 1..num_outputs :
              BetaDen * mem2'[b][o] =
                  BetaNum * mem2[b][o]
                  + BetaDen * Scale * (Linear(net.linear2, spk1'[b])[o]
                                       - ResetTerm(spk2, b, o) * Threshold)
    ]_vars

\* an output neuron fired at the previous step with a potential above the
\* threshold, and its potential now is beta * V + I - V_threshold, which is
\* neither zero nor the value without the reset
C4_Witness ==
    /\ pc = "forward_loop"
    /\ step >= 2
    /\ \E b \in 1..Len(x) : \E o \in 1..num_outputs :
          /\ spk2_rec[step - 1][b][o] = 1
          /\ mem2_rec[step - 1][b][o] > Threshold * Scale
          /\ BetaDen * mem2[b][o] =
                BetaNum * mem2_rec[step - 1][b][o]
                + BetaDen * Scale * (Linear(net.linear2, spk1[b])[o] - Threshold)
          /\ mem2[b][o] # 0

\* C5 as stated: a neuron spikes exactly when its new potential is >= threshold.
C5_SpikeAtOrAboveThreshold ==
    (pc = "forward_loop" /\ step > 0) =>
        /\ \A b \in 1..Len(x) : \A h \in 1..num_hidden :
              spk1[b][h] = (IF mem1[b][h] >= Threshold * Scale THEN 1 ELSE 0)
        /\ \A b \in 1..Len(x) : \A o \in 1..num_outputs :
              spk2[b][o] = (IF mem2[b][o] >= Threshold * Scale THEN 1 ELSE 0)

\* C5 amended: a neuron spikes exactly when the potential just computed at that
\* step is strictly above the threshold; a potential equal to the threshold
\* produces no spike.
C5_SpikeAboveThreshold ==
    (pc = "forward_loop" /\ step > 0) =>
        /\ \A b \in 1..Len(x) : \A h \in 1..num_hidden :
              spk1[b][h] = (IF mem1[b][h] > Threshold * Scale THEN 1 ELSE 0)
        /\ \A b \in 1..Len(x) : \A o \in 1..num_outputs :
              spk2[b][o] = (IF mem2[b][o] > Threshold * Scale THEN 1 ELSE 0)

\* after a loop step one neuron sits exactly at the threshold and is silent
\* while another is above it and fires
C5_Witness ==
    /\ pc = "forward_loop"
    /\ step > 0
    /\ \E b \in 1..Len(x) : \E o \in 1..num_outputs :
          mem2[b][o] = Threshold * Scale /\ spk2[b][o] = 0
    /\ \E b \in 1..Len(x) : \E h \in 1..num_hidden :
          mem1[b][h] > Threshold * Scale /\ spk1[b][h] = 1

\* ---- properties of the training loop ------------------------------------------------
\* the sum over all num_steps steps of the per-step loss of a potential trajectory
AggregateLoss(traj, tg) ==
    SumSeq([t \in 1..num_steps |-> CrossEntropy(traj[t], tg)])

\* the held-out evaluation of the running iteration is under way
InHeldOutEval ==
    \/ pc \in {"forward", "forward_loop"} /\ ret = "test"
    \/ pc \in {"test_loss_init", "test_loss", "append_test"}

\* C6: the held-out forward pass of iteration i runs after the i-th optimizer
\* step and before the next one, and the test loss appended at iteration i is
\* the loss under exactly the weights the i-th update produced.
C6_EvalSeesUpdatedWeights ==
    /\ InHeldOutEval =>
          /\ Len(updates) = counter + 1
          /\ net = updates[counter + 1]
          /\ (pc # "forward") => fwd_updates = counter + 1
    /\ pc = "monitor_check" =>
          /\ Len(updates) = counter + 1
          /\ Len(test_loss_hist) = counter + 1
          /\ test_loss_hist[counter + 1] =
                AggregateLoss(Unroll(updates[counter + 1], test_data).mem,
                              test_targets)

\* a test loss was appended in a later iteration whose update changed the
\* weights, and the weights before that update give another loss
C6_Witness ==
    /\ pc = "monitor_check"
    /\ counter >= 1
    /\ Len(updates) = counter + 1
    /\ updates[counter + 1] # updates[counter]
    /\ test_loss_hist[counter + 1] #
          AggregateLoss(Unroll(updates[counter], test_data).mem, test_targets)

\* the optimizer step of the running iteration is done
AfterOptimizerStep ==
    \/ pc \in {"append_train", "test_fetch", "test_loss_init", "test_loss",
               "append_test", "monitor_check", "acc_train", "acc_test",
               "increment"}
    \/ pc \in {"forward", "forward_loop"} /\ ret \in {"test", "mon_train", "mon_test"}

\* C7: the weights change only at optimizer.step(), which runs exactly once per
\* training iteration; the forward unroll, the loss loops, the held-out
\* evaluation, the monitoring snapshot and the final evaluation leave them alone.
C7_WeightsChangeOnlyAtStep ==
    /\ [](Len(updates) = counter + (IF AfterOptimizerStep THEN 1 ELSE 0))
    /\ [][net' # net => (pc = "optimizer" /\ net' = updates'[Len(updates')])]_vars

\* the run is over: the weights are those of the last of `counter` updates,
\* updates did change them, and the monitor and the final evaluation have run
C7_Witness ==
    /\ pc = "done"
    /\ counter >= 2
    /\ Len(updates) = counter
    /\ net = updates[counter]
    /\ updates[1] # updates[2]
    /\ monitored # <<>>
    /\ total > 0

\* C8: the aggregate loss starts at zero and is the sum over the steps
\* 0..num_steps-1 of the per-step cross-entropy of the potential trajectory
\* against the labels, for the train and the test loss alike; it is >= 0 when
\* every per-step loss is, and num_steps * c when every per-step loss is c.
C8_LossIsSumOverSteps ==
    /\ pc = "train_loss" =>
          loss_val = SumSeq([t \in 1..loss_step |->
                                CrossEntropy(mem_rec[t], targets)])
    /\ pc = "test_loss" =>
          test_loss = SumSeq([t \in 1..loss_step |->
                                 CrossEntropy(test_mem[t], test_targets)])
    /\ pc = PcAfter("train_loss") =>
          /\ mem_rec = mem2_rec
          /\ loss_val = AggregateLoss(mem_rec, targets)
          /\ (\A t \in 1..num_steps : CrossEntropy(mem_rec[t], targets) >= 0)
                => loss_val >= 0
          /\ \A t \in 1..num_steps :
                (\A u \in 1..num_steps : CrossEntropy(mem_rec[u], targets)
                                         = CrossEntropy(mem_rec[t], targets))
                => loss_val = num_steps * CrossEntropy(mem_rec[t], targets)
    /\ pc = PcAfter("test_loss") =>
          /\ test_mem = mem2_rec
          /\ test_loss = AggregateLoss(test_mem, test_targets)
          /\ (\A t \in 1..num_steps : CrossEntropy(test_mem[t], test_targets) >= 0)
                => test_loss >= 0
          /\ \A t \in 1..num_steps :
                (\A u \in 1..num_steps : CrossEntropy(test_mem[u], test_targets)
                                         = CrossEntropy(test_mem[t], test_targets))
                => test_loss = num_steps * CrossEntropy(test_mem[t], test_targets)

\* a test loss loop has ended on a positive aggregate whose last step
\* contributed, after a train loss loop that did the same
C8_Witness ==
    /\ pc = PcAfter("test_loss")
    /\ test_loss > 0
    /\ CrossEntropy(test_mem[num_steps], test_targets) > 0
    /\ loss_val > 0
    /\ CrossEntropy(mem_rec[num_steps], targets) > 0

\* ---- properties of the Evaluator -----------------------------------------------------
InFinalEval ==
    \/ pc \in {"eval_iter", "eval_tally", "done"}
    \/ pc \in {"forward", "forward_loop"} /\ ret = "eval"

\* C9: the full-dataset evaluation keeps the final partial batch: when its loop
\* is over total = NTest and every test sample was tallied exactly once, and
\* 0 <= corrects <= total after every batch.
C9_FullDatasetCounted ==
    /\ InFinalEval => (0 <= corrects /\ corrects <= total)
    /\ InFinalEval => total = Len(counted)
    /\ pc = "done" =>
          /\ total = NTest
          /\ \A i \in 1..NTest :
                Cardinality({n \in 1..Len(counted) : counted[n] = i}) = 1

\* the evaluation is over, its last batch was a partial one, and some but not
\* all samples were classified right
C9_Witness ==
    /\ pc = "done"
    /\ NTest % batch_size # 0
    /\ Len(batch_idx) = NTest % batch_size
    /\ total = NTest
    /\ 0 < corrects /\ corrects < total

\* the number of steps at which class o of sample b spikes
SpikeCount(spikes, b, o) ==
    Cardinality({t \in 1..Len(spikes) : spikes[t][b][o] = 1})

\* k is the class with the largest spike count of sample b (the first such)
IsLargest(spikes, b, k) ==
    /\ \A o \in 1..num_outputs : SpikeCount(spikes, b, o) <= SpikeCount(spikes, b, k)
    /\ \A o \in 1..(k - 1) : SpikeCount(spikes, b, o) < SpikeCount(spikes, b, k)

\* class k of sample b spikes at every step and no other class ever does
OnlyClassSpikes(spikes, b, k) ==
    \A t \in 1..Len(spikes) : \A o \in 1..num_outputs :
        spikes[t][b][o] = (IF o = k THEN 1 ELSE 0)

\* the samples the Evaluator has to count as right
Hits(spikes, tg) ==
    Cardinality({b \in 1..Len(tg) : IsLargest(spikes, b, tg[b])})

\* C10: the Evaluator sums the output spikes over time per class and predicts
\* the class with the largest sum; where class k spikes at every step and no
\* other class ever spikes the prediction is k, and a sample is counted correct
\* exactly when its label is the prediction.  Holds of both print_batch_accuracy
\* calls and of the tally of the final evaluation.
C10_ArgMaxOfSpikeCounts ==
    [][/\ pc = "acc_train" => acc' = Hits(output, targets)
       /\ pc = "acc_test" => acc' = Hits(output, test_targets)
       /\ pc = "eval_tally" =>
             /\ corrects' = corrects + Hits(test_spk, targets)
             /\ \A b \in 1..Len(targets) : \A k \in 1..num_outputs :
                   OnlyClassSpikes(test_spk, b, k) =>
                       /\ Predicted(test_spk)[b] = k
                       /\ (\A c \in 1..Len(targets) : c # b =>
                              ~IsLargest(test_spk, c, targets[c]))
                          => (corrects' = corrects + 1 <=> targets[b] = k)
    ]_vars

\* the test-batch accuracy was just taken on a trajectory in which, for every
\* sample, only a class k other than the first spikes, at every step; some
\* labels are k and some are not
C10_Witness ==
    /\ pc = "increment"
    /\ monitored # <<>>
    /\ monitored[Len(monitored)] = counter
    /\ \E k \in 2..num_outputs :
          /\ \A b \in 1..Len(test_targets) : OnlyClassSpikes(output, b, k)
          /\ acc = Cardinality({b \in 1..Len(test_targets) : test_targets[b] = k})
          /\ 0 < acc /\ acc < Len(test_targets)

\* ---- properties of the loss histories and of the monitor ----------------------------
\* no training iteration is under way: the loop is between two iterations,
\* between two epochs, or over
BetweenIterations ==
    \/ pc \in {"epoch", "train_iter", "eval_iter", "eval_tally", "done"}
    \/ pc \in {"forward", "forward_loop"} /\ ret = "eval"

\* sequence s is sequence t, or t with one element appended
GrewByAtMostOne(s, t) ==
    \/ s = t
    \/ Len(s) = Len(t) + 1 /\ SubSeq(s, 1, Len(t)) = t

\* C11: both loss histories are append-only with exactly one entry per training
\* iteration: after every completed iteration, in every epoch,
\* len(train_loss_hist) = len(test_loss_hist) = counter, within an iteration
\* each history is at most one entry ahead of counter, and no step of the
\* program modifies or removes an entry already in a history.
C11_HistoriesAppendOnly ==
    /\ [](BetweenIterations =>
            /\ Len(train_loss_hist) = counter
            /\ Len(test_loss_hist) = counter)
    /\ [](/\ Len(test_loss_hist) \in {counter, counter + 1}
          /\ Len(train_loss_hist) \in {Len(test_loss_hist), Len(test_loss_hist) + 1})
    /\ [][/\ GrewByAtMostOne(train_loss_hist', train_loss_hist)
          /\ GrewByAtMostOne(test_loss_hist', test_loss_hist)]_vars

\* the first iteration of a later epoch is complete, and the histories hold
\* two different training losses and two different test losses
C11_Witness ==
    /\ pc = "train_iter"
    /\ epoch >= 1
    /\ counter >= 2
    /\ Len(train_loss_hist) = counter
    /\ train_loss_hist[1] # train_loss_hist[2]
    /\ test_loss_hist[1] # test_loss_hist[2]

\* accuracy_loss_monitor is running: from the check of line 173 to the end of
\* its second print_batch_accuracy
InMonitor ==
    \/ pc \in {"forward", "forward_loop"} /\ ret \in {"mon_train", "mon_test"}
    \/ pc \in {"acc_train", "acc_test"}

\* the iterations whose monitor check (line 173) is behind the program
CheckedIterations ==
    {c \in 0..counter :
        c < counter \/ InMonitor \/ pc = "increment"}

Abs(v) == IF v < 0 THEN -v ELSE v

\* hidden neuron h of sample b receives zero input current at every step of the
\* running unroll: its current linear1(x) is the same at every step
ZeroCurrent1(b, h) == Linear(net.linear1, x[b])[h] = 0

\* a loop step of Net.forward
IsForwardStep == pc = "forward_loop" /\ step' = step + 1

\* C13 as stated: with zero input current at every step, the potential strictly
\* decreases toward the baseline from each step to the next, and no spike fires.
C13_StrictDecay ==
    [][IsForwardStep =>
        \A b \in 1..Len(x) : \A h \in 1..num_hidden :
            ZeroCurrent1(b, h) =>
                /\ Abs(mem1'[b][h]) < Abs(mem1[b][h])
                /\ spk1'[b][h] = 0
    ]_vars

\* C13 amended: every unroll starts at the baseline 0, and with zero input
\* current at every step the potential stays exactly at the baseline at every
\* step (V_t = beta * V_(t-1) = 0, so it never moves away from the baseline
\* and never strictly decreases) and the neuron never fires.  For both layers:
\* a step with zero current leaves a neuron at the baseline there and silent.
C13_StaysAtBaseline ==
    /\ []((pc = "forward_loop" /\ step = 0) =>
            /\ mem1 = Zeros(Len(x), num_hidden)
            /\ mem2 = Zeros(Len(x), num_outputs))
    /\ []((pc = "forward_loop" /\ step > 0) =>
            \A b \in 1..Len(x) : \A h \in 1..num_hidden :
                ZeroCurrent1(b, h) => (mem1[b][h] = 0 /\ spk1[b][h] = 0))
    /\ [][IsForwardStep =>
            /\ \A b \in 1..Len(x) : \A h \in 1..num_hidden :
                  (ZeroCurrent1(b, h) /\ mem1[b][h] = 0) =>
                      (mem1'[b][h] = 0 /\ spk1'[b][h] = 0)
            /\ \A b \in 1..Len(x) : \A o \in 1..num_outputs :
                  (Linear(net.linear2, spk1'[b])[o] = 0 /\ mem2[b][o] = 0) =>
                      (mem2'[b][o] = 0 /\ spk2'[b][o] = 0)
       ]_vars

\* the last step of an unroll has run; one sample drove zero current into a
\* hidden neuron and into an output neuron at every step and both are at the
\* baseline, while a hidden neuron of another sample of the batch has fired
C13_Witness ==
    /\ pc = "forward_loop"
    /\ step = num_steps
    /\ \E b \in 1..Len(x) :
          /\ \A h \in 1..num_hidden :
                ZeroCurrent1(b, h) /\ mem1[b][h] = 0 /\ spk1[b][h] = 0
          /\ \E o \in 1..num_outputs :
                /\ \A t \in 1..step : mem2_rec[t][b][o] = 0 /\ spk2_rec[t][b][o] = 0
                /\ net.linear2.b[o] = 0
    /\ \E c \in 1..Len(x) : \E h \in 1..num_hidden : spk1[c][h] = 1

\* ---- the end-to-end scenario: Net under another configuration ----------------------
\* the configuration constants of the script, at the values of the scenario
Scenario ==
    [num_inputs |-> 4, num_hidden |-> 3, num_outputs |-> 2, num_steps |-> 5,
     beta_num |-> 9, beta_den |-> 10]

\* potentials of a configuration c are integers in units of 1/ScaleOf(c)
ScaleOf(c) == c.beta_den ^ c.num_steps

\* snn.Leaky under configuration c
\* (variant: the input current is taken off the potential)
LeakyMemOfNegInput(c, input, mem) ==
    (c.beta_num * mem) \div c.beta_den - input * ScaleOf(c)
        - Heaviside(mem - Threshold * ScaleOf(c)) * Threshold * ScaleOf(c)
LeakyMemOf(c, input, mem) ==
    (c.beta_num * mem) \div c.beta_den + input * ScaleOf(c)
        - Heaviside(mem - Threshold * ScaleOf(c)) * Threshold * ScaleOf(c)

LeakyLayerMemOf(c, cur, mem) ==
    AsTensor([b \in 1..Len(cur) |->
                [j \in 1..Len(cur[b]) |-> LeakyMemOf(c, cur[b][j], mem[b][j])]])
LeakyLayerSpkOf(c, newmem) ==
    AsTensor([b \in 1..Len(newmem) |->
                [j \in 1..Len(newmem[b]) |->
                    Heaviside(newmem[b][j] - Threshold * ScaleOf(c))]])

\* the fixed weight sets of the scenario: every combination of biases -1, 0, 1
\* on the neurons of both layers, on two weight patterns of the output layer
ScenarioWeightSets ==
    { [linear1 |-> [W |-> [h \in 1..Scenario.num_hidden |->
                             [i \in 1..Scenario.num_inputs |->
                                 IF i = h THEN 2 ELSE 0]],
                    b |-> b1],
       linear2 |-> [W |-> [o \in 1..Scenario.num_outputs |->
                             [h \in 1..Scenario.num_hidden |->
                                 IF o = k THEN 1 ELSE -1]],
                    b |-> b2]] :
        b1 \in [1..Scenario.num_hidden -> {-1, 0, 1}],
        b2 \in [1..Scenario.num_outputs -> {-1, 0, 1}],
        k \in 1..Scenario.num_outputs }

\* the all-zero input vector, and an input that is nowhere zero
ZeroInput == <<[i \in 1..Scenario.num_inputs |-> 0]>>
ScenarioInputs == {ZeroInput, <<[i \in 1..Scenario.num_inputs |-> 1]>>}

\* everything outside Net.forward
outsideF ==
    <<net, callF, trainV, batchV, lossV, histV, testV, resV, evalV, updates,
      monitored, test_loss, acc>>

ScenarioForwardInit ==
    /\ pc = "forward"
    /\ mem1' = InitLeaky(Len(x), Scenario.num_hidden, mem1)
    /\ mem2' = InitLeaky(Len(x), Scenario.num_outputs, mem2)
    /\ spk1' = <<>>
    /\ spk2' = <<>>
    /\ spk2_rec' = <<>>
    /\ mem2_rec' = <<>>
    /\ step' = 0
    /\ pc' = "forward_loop"
    /\ UNCHANGED <<outsideF, calls>>

ScenarioForwardStep ==
    /\ pc = "forward_loop"
    /\ step < Scenario.num_steps
    /\ \E cur1 \in {LinearLayer(net.linear1, x)} :
       \E m1 \in {LeakyLayerMemOf(Scenario, cur1, mem1)} :
       \E s1 \in {LeakyLayerSpkOf(Scenario, m1)} :
       \E cur2 \in {LinearLayer(net.linear2, s1)} :
       \E m2 \in {LeakyLayerMemOf(Scenario, cur2, mem2)} :
       \E s2 \in {LeakyLayerSpkOf(Scenario, m2)} :
          /\ mem1' = m1
          /\ spk1' = s1
          /\ mem2' = m2
          /\ spk2' = s2
          /\ spk2_rec' = Append(spk2_rec, s2)
          /\ mem2_rec' = Append(mem2_rec, m2)
    /\ step' = step + 1
    /\ UNCHANGED <<pc, outsideF, calls>>

ScenarioForwardReturn ==
    /\ pc = "forward_loop"
    /\ ~(step < Scenario.num_steps)
    /\ pc' = "done"
    /\ calls' = Append(calls, [w |-> net, x |-> x, spikes |-> spk2_rec,
                                mem |-> mem2_rec])
    /\ UNCHANGED <<outsideF, localsF>>

\* one call net(x) of a freshly built Net with a fixed weight set
ScenarioInit ==
    /\ pc = "forward"
    /\ ret = "none"
    /\ net \in ScenarioWeightSets
    /\ x \in ScenarioInputs
    /\ mem1 = <<>> /\ mem2 = <<>> /\ spk1 = <<>> /\ spk2 = <<>>
    /\ spk2_rec = <<>> /\ mem2_rec = <<>> /\ step = 0
    /\ epoch = 0 /\ iter_counter = 0 /\ train_batch = <<>>
    /\ data = <<>> /\ targets = <<>> /\ mem_rec = <<>>
    /\ loss_val = 0 /\ loss_step = 0
    /\ train_loss_hist = <<>> /\ test_loss_hist = <<>> /\ counter = 0
    /\ test_data = <<>> /\ test_targets = <<>>
    /\ test_spk = <<>> /\ test_mem = <<>> /\ test_loss = 0
    /\ output = <<>> /\ acc = 0
    /\ total = 0 /\ corrects = 0 /\ loader = <<>>
    /\ updates = <<>> /\ fwd_updates = 0 /\ monitored = <<>>
    /\ batch_idx = <<>> /\ counted = <<>> /\ calls = <<>>

ScenarioNext ==
    \/ ScenarioForwardInit \/ ScenarioForwardStep \/ ScenarioForwardReturn

SpecScenario == ScenarioInit /\ [][ScenarioNext]_vars

\* no neuron of either layer has fired at any step run so far
NoSpikes ==
    /\ (pc = "forward_loop" /\ step > 0) =>
          /\ \A b \in 1..Len(x) : \A h \in 1..Scenario.num_hidden : spk1[b][h] = 0
          /\ \A b \in 1..Len(x) : \A o \in 1..Scenario.num_outputs : spk2[b][o] = 0
    /\ \A t \in 1..Len(spk2_rec) :
          \A b \in 1..Len(x) : \A o \in 1..Scenario.num_outputs :
              spk2_rec[t][b][o] = 0

NoPositiveBias ==
    /\ \A h \in 1..Scenario.num_hidden : net.linear1.b[h] <= 0
    /\ \A o \in 1..Scenario.num_outputs : net.linear2.b[o] <= 0

\* C14 as stated: under the scenario's configuration and any fixed weight set,
\* the unroll on the all-zero input produces no spike in either layer at any step.
C14_ZeroInputNoSpikes ==
    x = ZeroInput => NoSpikes

\* C14 amended: under num_inputs=4, num_hidden=3, num_outputs=2, num_steps=5,
\* beta=0.9 and a fixed weight set in which no bias of linear1 or linear2 is
\* positive, the unroll on the all-zero input produces no spike in the hidden
\* layer and none in the output layer at every one of the 5 steps.
C14_ZeroInputNoSpikesWithoutBias ==
    (x = ZeroInput /\ NoPositiveBias) => NoSpikes

\* all 5 steps of the unroll on the all-zero input have run under a weight set
\* with a negative and a zero hidden bias and a negative output bias: potentials
\* moved away from zero (below it) and nothing fired
C14_Witness ==
    /\ pc = "done"
    /\ x = ZeroInput
    /\ step = Scenario.num_steps
    /\ Len(spk2_rec) = Scenario.num_steps
    /\ NoPositiveBias
    /\ \E h \in 1..Scenario.num_hidden : net.linear1.b[h] < 0 /\ mem1[1][h] < 0
    /\ \E h \in 1..Scenario.num_hidden : net.linear1.b[h] = 0 /\ mem1[1][h] = 0
    /\ \E o \in 1..Scenario.num_outputs : net.linear2.b[o] < 0 /\ mem2[1][o] < 0
    /\ NoSpikes

\* ---- the training loop over float32 finiteness ----------------------------------------
\* An abstraction of the training loop that keeps, of every float32 value, only
\* whether it is finite.  Weights are "finite", "overflowing" (finite, and so
\* large that an output current overflows float32 once a hidden neuron
\* spikes) or "nonfinite" (NaN/Inf); a batch is "driving" (it makes hidden
\* neurons spike) or "silent"; every other value is "finite" or "nonfinite".
\* The integer potentials of the specifications above stand for finite values
\* only, so this is where NaN and Inf are followed through the loop.

\* net(x): the finiteness of the potentials a forward call returns
FinitenessOfForward(w, batch) ==
    IF w = "nonfinite" \/ (w = "overflowing" /\ batch = "driving")
    THEN "nonfinite" ELSE "finite"

\* the number of iterations of the whole training loop
TrainIterations == num_epochs * (NTrain \div batch_size)

\* data, targets = next(train_batch); mem_rec = net(data.view(batch_size, -1))
FinFetchForward ==
    /\ pc = "train_iter"
    /\ counter < TrainIterations
    /\ data' \in {"driving", "silent"}
    /\ mem_rec' = FinitenessOfForward(net, data')
    /\ pc' = "train_loss"
    /\ UNCHANGED <<net, callF, localsF, trainV, targets, batch_idx, lossV, histV,
                   testV, test_spk, test_mem, output, evalV, ghostV, test_loss, acc>>

\* loss_val += loss(mem_rec[step], targets) over the steps: a sum over
\* potentials that are not all finite is not finite
FinTrainLoss ==
    /\ pc = "train_loss"
    /\ loss_val' = mem_rec
    /\ pc' = "optimizer"
    /\ UNCHANGED <<net, callF, localsF, trainV, batchV, loss_step, histV, testV,
                   resV, evalV, ghostV, test_loss, acc>>

\* optimizer.zero_grad(); loss_val.backward(); optimizer.step(): no branch on
\* the loss or on the gradient; the gradient of a non-finite loss is NaN and
\* Adam writes it into every weight, a finite one gives any finite weights
FinOptimizerStep ==
    /\ pc = "optimizer"
    /\ net' \in (IF loss_val = "nonfinite" THEN {"nonfinite"}
                  ELSE {"finite", "overflowing"})
    /\ updates' = Append(updates, net')
    /\ pc' = "append_train"
    /\ UNCHANGED <<callF, localsF, trainV, batchV, lossV, histV, testV, resV,
                   evalV, monitored, calls, test_loss, acc>>

\* train_loss_hist.append(loss_val.item())
FinAppendTrainLoss ==
    /\ pc = "append_train"
    /\ train_loss_hist' = Append(train_loss_hist, loss_val)
    /\ pc' = "test_fetch"
    /\ UNCHANGED <<net, callF, localsF, trainV, batchV, lossV, test_loss_hist,
                   counter, testV, resV, evalV, ghostV, test_loss, acc>>

\* test_data, test_targets = next(iter(test_loader)); test_spk, test_mem = net(...)
FinTestForward ==
    /\ pc = "test_fetch"
    /\ test_data' \in {"driving", "silent"}
    /\ test_mem' = FinitenessOfForward(net, test_data')
    /\ pc' = "test_loss"
    /\ UNCHANGED <<net, callF, localsF, trainV, batchV, lossV, histV,
                   test_targets, mem_rec, test_spk, output, evalV, ghostV,
                   test_loss, acc>>

\* test_loss += loss(test_mem[step], test_targets); test_loss_hist.append(...)
FinAppendTestLoss ==
    /\ pc = "test_loss"
    /\ test_loss' = test_mem
    /\ test_loss_hist' = Append(test_loss_hist, test_mem)
    /\ pc' = "increment"
    /\ UNCHANGED <<net, callF, localsF, trainV, batchV, lossV, train_loss_hist,
                   counter, testV, resV, evalV, ghostV, acc>>

\* counter += 1; iter_counter += 1
FinIncrement ==
    /\ pc = "increment"
    /\ counter' = counter + 1
    /\ pc' = "train_iter"
    /\ UNCHANGED <<net, callF, localsF, trainV, batchV, lossV, train_loss_hist,
                   test_loss_hist, testV, resV, evalV, ghostV, test_loss, acc>>

\* the loops are over
FinDone ==
    /\ pc = "train_iter"
    /\ counter >= TrainIterations
    /\ pc' = "done"
    /\ UNCHANGED <<net, callF, localsF, trainV, batchV, lossV, histV, testV,
                   resV, evalV, ghostV, test_loss, acc>>

FinInit ==
    /\ pc = "train_iter"
    /\ ret = "none"
    /\ net \in {"finite", "overflowing"}
    /\ x = <<>>
    /\ mem1 = <<>> /\ mem2 = <<>> /\ spk1 = <<>> /\ spk2 = <<>>
    /\ spk2_rec = <<>> /\ mem2_rec = <<>> /\ step = 0
    /\ epoch = 0 /\ iter_counter = 0 /\ train_batch = <<>>
    /\ data = "silent" /\ targets = <<>> /\ mem_rec = "finite"
    /\ loss_val = "finite" /\ loss_step = 0
    /\ train_loss_hist = <<>> /\ test_loss_hist = <<>> /\ counter = 0
    /\ test_data = "silent" /\ test_targets = <<>>
    /\ test_spk = <<>> /\ test_mem = "finite" /\ test_loss = "finite"
    /\ output = <<>> /\ acc = 0
    /\ total = 0 /\ corrects = 0 /\ loader = <<>>
    /\ updates = <<>> /\ fwd_updates = 0 /\ monitored = <<>>
    /\ batch_idx = <<>> /\ counted = <<>> /\ calls = <<>>

FinNext ==
    \/ FinFetchForward \/ FinTrainLoss \/ FinOptimizerStep
    \/ FinAppendTrainLoss \/ FinTestForward \/ FinAppendTestLoss
    \/ FinIncrement \/ FinDone

SpecFiniteness == FinInit /\ [][FinNext]_vars

FairSpec == Spec /\ WF_vars(Next)

\* batches per epoch of train_loader, and batches of the final loader
TrainBatchesPerEpoch == NTrain \div batch_size
EvalBatches == (NTest + batch_size - 1) \div batch_size

\* the forward calls of the final evaluation that have returned: every training
\* iteration makes two forward calls and every monitor snapshot two more
EvalCallsDone == Len(calls) - 2 * counter - 2 * Len(monitored)

\* C16: every run terminates.  Each Net.forward call leaves its loop after
\* exactly num_steps steps, each epoch ends after floor(N_train / batch_size)
\* batches, the training loop after num_epochs epochs, the final evaluation
\* after ceil(N_test / batch_size) batches, and the script reaches its end.
C16_Terminates ==
    /\ <>(pc = "done")
    /\ [](/\ pc = "forward_loop" => step <= num_steps
          /\ Returned => step = num_steps
          /\ iter_counter <= TrainBatchesPerEpoch
          /\ (pc = "train_iter" /\ train_batch = <<>>) =>
                iter_counter = TrainBatchesPerEpoch
          /\ epoch <= num_epochs
          /\ pc = "epoch" => counter = epoch * TrainBatchesPerEpoch
          /\ pc \in {"eval_iter", "eval_tally", "done"} =>
                /\ epoch = num_epochs
                /\ counter = num_epochs * TrainBatchesPerEpoch
                /\ EvalCallsDone + Len(loader) = EvalBatches
          /\ pc = "done" => EvalCallsDone = EvalBatches)

\* the script is over: all epochs ran, with a dropped partial training batch in
\* each, and the final evaluation ran over all its batches, the last one partial
C16_Witness ==
    /\ pc = "done"
    /\ epoch = num_epochs
    /\ num_epochs > 1
    /\ counter = num_epochs * TrainBatchesPerEpoch
    /\ NTrain % batch_size # 0
    /\ NTest % batch_size # 0
    /\ loader = <<>>
    /\ EvalCallsDone = EvalBatches
    /\ total = NTest

\* ---- properties of the monitor's reads and of the held-out fetch -----------------
\* the program is at the test of line 173, where accuracy_loss_monitor is
\* called from, or inside accuracy_loss_monitor
MonitorReads == pc = "monitor_check" \/ InMonitor

\* C17: wherever accuracy_loss_monitor is called from, in every iteration of
\* every epoch, and while it runs, the index it reads is in range and current:
\* counter = len(train_loss_hist) - 1 = len(test_loss_hist) - 1, and the
\* entries at that index (index counter + 1 of the sequences here) are the
\* train and test loss of the running iteration.
C17_MonitorIndexCurrent ==
    MonitorReads =>
        /\ counter + 1 \in DOMAIN train_loss_hist
        /\ counter + 1 \in DOMAIN test_loss_hist
        /\ counter = Len(train_loss_hist) - 1
        /\ counter = Len(test_loss_hist) - 1
        /\ train_loss_hist[counter + 1] = loss_val
        /\ test_loss_hist[counter + 1] = test_loss

\* the monitor runs, and the two losses it reports are the non-zero, different
\* train and test loss of the running iteration
C17_Witness ==
    /\ pc = "acc_train"
    /\ monitored # <<>>
    /\ monitored[Len(monitored)] = counter
    /\ Len(train_loss_hist) = counter + 1
    /\ Len(test_loss_hist) = counter + 1
    /\ train_loss_hist[counter + 1] = loss_val
    /\ test_loss_hist[counter + 1] = test_loss
    /\ loss_val # test_loss
    /\ loss_val > 0
    /\ test_loss > 0

\* the batches one pass over test_loader yields
TestLoaderBatches == NTest \div batch_size

\* C18: provided the test split holds at least batch_size samples, the held-out
\* fetch of every training iteration succeeds, in every epoch and also once
\* there have been more iterations than test_loader has batches, and the batch
\* it yields, which is the one passed to the network, has exactly batch_size
\* samples and batch_size labels.
C18_HeldOutFetchSucceeds ==
    NTest >= batch_size =>
        /\ pc = "test_fetch" => ENABLED TestFetch
        /\ InHeldOutEval =>
              /\ Len(test_data) = batch_size
              /\ Len(test_targets) = batch_size
        /\ (pc \in {"forward", "forward_loop"} /\ ret = "test") => x = test_data

\* the held-out batch of an iteration of a later epoch was fetched after more
\* iterations than one pass over test_loader has batches
C18_Witness ==
    /\ pc = "forward"
    /\ ret = "test"
    /\ epoch >= 1
    /\ counter >= TestLoaderBatches
    /\ TestLoaderBatches >= 1
    /\ Len(test_data) = batch_size
    /\ x = test_data

====
